---- MODULE Spec2Model ----
(***************************************************************************)
(* A model of the virtual shell (src/src/virtual-shell.ts), its hook       *)
(* pipelines, its built-in commands and the in-memory volume they act on,  *)
(* of its construction and module import, of its volume snapshots, and of  *)
(* the sandbox of BaseCommand (src/src/commands/base-command.ts).          *)
(*                                                                         *)
(* Text.  A JavaScript string is modelled as a sequence of symbols.  A     *)
(* symbol is either one of the characters the shell itself inspects        *)
(* (" ", ">", "*", "/") or an atom standing for a run of ordinary          *)
(* characters (a word such as "echo", a path segment such as "tmp", a      *)
(* message fragment such as ": command not found").  The empty string is   *)
(* the empty sequence; it also stands for null/undefined where the code    *)
(* only tests truthiness.                                                  *)
(***************************************************************************)
EXTENDS Integers, Sequences, FiniteSets, TLC

VARIABLES
    volume,            \* the memfs volume: path -> node
    currentDirectory,  \* VirtualShell.currentDirectory, as a list of segments
    commands,          \* VirtualShell.commands: name -> command class
    preHooks,          \* PreHook.hooks: name -> list of hook functions
    postHooks,         \* PostHook.hooks: name -> list of hook functions
    last,              \* what the latest executeCommand call did and returned
    fs,                \* VirtualShell.fs: the volume object the handle is on
    snapshot,          \* the latest string serializeVolume gave its caller
    construction,      \* how far the constructor and its module import got
    sandbox,           \* the isolates of executeFunction and its latest call
    extraction         \* a line and what extractRedirection made of it

vars ==
    <<volume, currentDirectory, commands, preHooks, postHooks, last,
      fs, snapshot, construction, sandbox, extraction>>

(***************************************************************************)
(* Bounds of the model.                                                    *)
(***************************************************************************)
MaxHooks == 2      \* hook functions registered over the life of a shell
MaxData == 4       \* symbols a file may hold before `>>` is no longer tried
MaxIsolates == 3   \* isolates allocated over the life of a command
MaxLine == 5       \* symbols of a line given to extractRedirection

(***************************************************************************)
(* String helpers: String.prototype.trim, split(/\s+/), join.              *)
(***************************************************************************)
IsWs(c) == c = " "

RECURSIVE TrimLeft(_)
TrimLeft(s) ==
    IF s = <<>> THEN <<>>
    ELSE IF IsWs(Head(s)) THEN TrimLeft(Tail(s)) ELSE s

RECURSIVE TrimRight(_)
TrimRight(s) ==
    IF s = <<>> THEN <<>>
    ELSE IF IsWs(s[Len(s)]) THEN TrimRight(SubSeq(s, 1, Len(s) - 1)) ELSE s

Trim(s) == TrimRight(TrimLeft(s))

\* the length of the longest prefix of s made of non-whitespace symbols
RECURSIVE WordLen(_)
WordLen(s) ==
    IF s = <<>> \/ IsWs(Head(s)) THEN 0 ELSE 1 + WordLen(Tail(s))

\* s.split(/\s+/) for a trimmed s; the empty string gives no chunk at all,
\* which every caller treats like the [""] JavaScript returns
RECURSIVE SplitWs(_)
SplitWs(s) ==
    LET t == TrimLeft(s)
        n == WordLen(t)
    IN  IF t = <<>> THEN <<>>
        ELSE <<SubSeq(t, 1, n)>> \o SplitWs(SubSeq(t, n + 1, Len(t)))

\* parts.join(sep)
RECURSIVE Join(_, _)
Join(parts, sep) ==
    IF parts = <<>> THEN <<>>
    ELSE IF Len(parts) = 1 THEN parts[1]
    ELSE parts[1] \o sep \o Join(Tail(parts), sep)

(***************************************************************************)
(* ERROR_MESSAGES (src/package.json:73-84) and the message framing.        *)
(***************************************************************************)
NO_COMMAND(command) == command \o <<": command not provided">>
ERR_CMD_NOT_FOUND(command) == command \o <<": command not found">>
ERR_PERMISSION_DENIED(filePath) == filePath \o <<": permission denied">>
ERR_NOT_A_DIRECTORY(path) == <<"cd: ">> \o path \o <<": not a directory">>
ERR_NO_SUCH_DIRECTORY(path) ==
    <<"cd: ">> \o path \o <<": no such file or directory">>
ERR_INVALID_OPERATOR(operator) == operator \o <<": invalid operator">>
ERR_UNKNOWN == <<"An unknown error occurred">>
ERR_INVALID_COMMAND_CLASS(path) == path \o <<": invalid command class">>
ERR_MISSING_PATH == <<"cd: missing operand">>
ERR_MKDIR_CREATE(dir, message) ==
    <<"mkdir: cannot create directory '">> \o dir \o <<"': ">> \o message

Namespace == <<"bash: ">>

(***************************************************************************)
(* VirtualShell.isInvalidCommand and VirtualShell.extractRedirection.      *)
(***************************************************************************)
isInvalidCommand(command) == Trim(command) = <<>>

\* r matches \s*(\S+)$ : optional blanks, then a non-empty blank-free run
TargetMatches(r) ==
    LET u == TrimLeft(r)
    IN  u # <<>> /\ WordLen(u) = Len(u)

\* s matches \s*(?:>>|>)\s*(\S+)$ as a whole
SuffixMatches(s) ==
    LET t == TrimLeft(s)
    IN  /\ t # <<>>
        /\ t[1] = ">"
        /\ \/ TargetMatches(Tail(t))
           \/ Len(t) >= 2 /\ t[2] = ">" /\ TargetMatches(SubSeq(t, 3, Len(t)))

\* where group 2 of /(.*?)(\s*(?:>>|>)\s*(\S+))$/ starts: the lazy group 1
\* takes the fewest symbols that let the rest match; -1 when nothing matches
MatchStart(command) ==
    LET starts == {i \in 0..Len(command) :
                      SuffixMatches(SubSeq(command, i + 1, Len(command)))}
    IN  IF starts = {} THEN -1
        ELSE CHOOSE i \in starts : \A j \in starts : i <= j

extractRedirection(command) ==
    LET i == MatchStart(command)
        group1 == SubSeq(command, 1, i)
        group2 == SubSeq(command, i + 1, Len(command))
        redirectionDetails == SplitWs(Trim(group2))
    IN  IF i = -1
        THEN [commandInput |-> command,
              redirectionOperator |-> <<>>,
              targetFile |-> <<>>]
        ELSE [commandInput |->
                  IF Trim(group1) # <<>> THEN Trim(group1) ELSE command,
              redirectionOperator |->
                  IF Len(redirectionDetails) >= 1
                  THEN redirectionDetails[1] ELSE <<>>,
              targetFile |->
                  IF Len(redirectionDetails) >= 2
                  THEN redirectionDetails[2] ELSE <<>>]

(***************************************************************************)
(* shellQuote.parse, for the part of its grammar the lines of this model   *)
(* use: blank-separated words, the operators > and >> (recognised without  *)
(* surrounding blanks), and words with a * in them, which come back as     *)
(* glob objects.  An entry is [type, text].                                *)
(***************************************************************************)
\* the length of the longest prefix of c free of ">"
RECURSIVE PlainLen(_)
PlainLen(c) ==
    IF c = <<>> \/ Head(c) = ">" THEN 0 ELSE 1 + PlainLen(Tail(c))

RECURSIVE ParseChunk(_)
ParseChunk(c) ==
    IF c = <<>> THEN <<>>
    ELSE IF Head(c) = ">"
    THEN IF Len(c) >= 2 /\ c[2] = ">"
         THEN <<[type |-> "op", text |-> <<">", ">">>]>>
                  \o ParseChunk(SubSeq(c, 3, Len(c)))
         ELSE <<[type |-> "op", text |-> <<">">>]>> \o ParseChunk(Tail(c))
    ELSE LET n == PlainLen(c)
             word == SubSeq(c, 1, n)
         IN  <<[type |-> IF \E k \in 1..n : word[k] = "*"
                         THEN "glob" ELSE "string",
                text |-> word]>> \o ParseChunk(SubSeq(c, n + 1, Len(c)))

RECURSIVE ParseChunks(_)
ParseChunks(chunks) ==
    IF chunks = <<>> THEN <<>>
    ELSE ParseChunk(Head(chunks)) \o ParseChunks(Tail(chunks))

shellQuoteParse(commandInput) == ParseChunks(SplitWs(commandInput))

\* the name taken from the first entry whatever its type
commandNameOf_anyEntry(args) ==
    IF args # <<>> THEN args[1].text ELSE <<>>

\* virtual-shell.ts:67 - the name is the first entry if that is a string
commandNameOf(args) ==
    IF args # <<>> /\ args[1].type = "string" THEN args[1].text ELSE <<>>

\* virtual-shell.ts:68-82 - every entry after the first, as text; a glob
\* gives its pattern, an operator its op; empty strings are dropped
RECURSIVE EntryTexts(_)
EntryTexts(entries) ==
    IF entries = <<>> THEN <<>>
    ELSE (IF Head(entries).text # <<>> THEN <<Head(entries).text>> ELSE <<>>)
             \o EntryTexts(Tail(entries))

commandArgsOf(args) == IF args = <<>> THEN <<>> ELSE EntryTexts(Tail(args))

(***************************************************************************)
(* path.posix: a path string is parsed into its segments; a resolved path  *)
(* is the list of its segments, the root being the empty list.             *)
(***************************************************************************)
RECURSIVE Segments(_)
Segments(str) ==
    IF str = <<>> THEN <<>>
    ELSE IF Head(str) = "/" THEN Segments(Tail(str))
    ELSE <<Head(str)>> \o Segments(Tail(str))

\* normalisation: "." is dropped, ".." removes the segment before it
RECURSIVE Normalize(_, _)
Normalize(done, todo) ==
    IF todo = <<>> THEN done
    ELSE IF Head(todo) = "." THEN Normalize(done, Tail(todo))
    ELSE IF Head(todo) = ".."
    THEN Normalize(IF done = <<>> THEN <<>>
                   ELSE SubSeq(done, 1, Len(done) - 1), Tail(todo))
    ELSE Normalize(Append(done, Head(todo)), Tail(todo))

\* path.resolve(from, to), from being a resolved path
pathResolve(from, to) ==
    IF to # <<>> /\ Head(to) = "/"
    THEN Normalize(<<>>, Segments(to))
    ELSE Normalize(from, Segments(to))

\* the string form of a resolved path
RECURSIVE PathString(_)
PathString(p) ==
    IF p = <<>> THEN <<"/">>
    ELSE IF Len(p) = 1 THEN <<"/", p[1]>>
    ELSE <<"/", Head(p)>> \o PathString(Tail(p))

\* path.basename of a resolved path
pathBasename(p) == IF p = <<>> THEN <<>> ELSE <<p[Len(p)]>>

(***************************************************************************)
(* The memfs volume.  A volume maps each existing resolved path to a node; *)
(* the root always exists and every path has its parent directory in the   *)
(* volume.  A failed call yields the Error that memfs throws.              *)
(***************************************************************************)
DirNode == [dir |-> TRUE, data |-> <<>>]
FileNode(data) == [dir |-> FALSE, data |-> data]

\* new Volume()
EmptyVolume == (<<>> :> DirNode)

ParentOf(p) == SubSeq(p, 1, Len(p) - 1)

\* a thrown JavaScript value: an Error (with or without a code), a
\* primitive string, or null/undefined
Error(message) == [kind |-> "Error", code |-> "", message |-> message]
FsError(code, p) ==
    [kind |-> "Error", code |-> code,
     message |-> <<code, ": ">> \o PathString(p)]
Nothing == [kind |-> "none", code |-> "", message |-> <<>>]

\* why a path that is not in the volume cannot be reached
LookupCode(vol, p) ==
    IF \E k \in 0..Len(p) :
          /\ SubSeq(p, 1, k) \in DOMAIN vol
          /\ ~vol[SubSeq(p, 1, k)].dir
    THEN "ENOTDIR" ELSE "ENOENT"

\* fs.lstat(p)
fsLstat(vol, p) ==
    IF p \in DOMAIN vol
    THEN [ok |-> TRUE, isDirectory |-> vol[p].dir, err |-> Nothing]
    ELSE [ok |-> FALSE, isDirectory |-> FALSE,
          err |-> FsError(LookupCode(vol, p), p)]

\* a check that lets every path through
fsAccess_always(vol, p) == TRUE

\* fs.access(p, W_OK): memfs resolves the path and checks nothing else
fsAccess(vol, p) == p \in DOMAIN vol

\* fs.utimes(p, now, now); timestamps are not part of the model
fsUtimes(vol, p) ==
    IF p \in DOMAIN vol
    THEN [ok |-> TRUE, vol |-> vol, err |-> Nothing]
    ELSE [ok |-> FALSE, vol |-> vol, err |-> FsError(LookupCode(vol, p), p)]

\* fs.readFile(p, 'utf8')
fsReadFile(vol, p) ==
    IF p \notin DOMAIN vol
    THEN [ok |-> FALSE, data |-> <<>>, err |-> FsError(LookupCode(vol, p), p)]
    ELSE IF vol[p].dir
    THEN [ok |-> FALSE, data |-> <<>>, err |-> FsError("EISDIR", p)]
    ELSE [ok |-> TRUE, data |-> vol[p].data, err |-> Nothing]

\* the common part of writeFile and appendFile: open for writing, creating
\* the file when only its parent directory exists
OpenForWrite(vol, p) ==
    IF p \in DOMAIN vol
    THEN IF vol[p].dir THEN "EISDIR" ELSE "ok"
    ELSE IF p # <<>> /\ ParentOf(p) \in DOMAIN vol /\ vol[ParentOf(p)].dir
    THEN "ok"
    ELSE LookupCode(vol, p)

\* a write that keeps what the file held
fsWriteFile_appending(vol, p, data) ==
    LET code == OpenForWrite(vol, p)
        old == IF p \in DOMAIN vol THEN vol[p].data ELSE <<>>
    IN  IF code = "ok"
        THEN [ok |-> TRUE, vol |-> (p :> FileNode(old \o data)) @@ vol,
              err |-> Nothing]
        ELSE [ok |-> FALSE, vol |-> vol, err |-> FsError(code, p)]

\* fs.writeFile(p, data)
fsWriteFile(vol, p, data) ==
    LET code == OpenForWrite(vol, p)
    IN  IF code = "ok"
        THEN [ok |-> TRUE, vol |-> (p :> FileNode(data)) @@ vol,
              err |-> Nothing]
        ELSE [ok |-> FALSE, vol |-> vol, err |-> FsError(code, p)]

\* an append that discards what the file held
fsAppendFile_truncating(vol, p, data) ==
    LET code == OpenForWrite(vol, p)
    IN  IF code = "ok"
        THEN [ok |-> TRUE, vol |-> (p :> FileNode(data)) @@ vol,
              err |-> Nothing]
        ELSE [ok |-> FALSE, vol |-> vol, err |-> FsError(code, p)]

\* fs.appendFile(p, data)
fsAppendFile(vol, p, data) ==
    LET code == OpenForWrite(vol, p)
        old == IF p \in DOMAIN vol THEN vol[p].data ELSE <<>>
    IN  IF code = "ok"
        THEN [ok |-> TRUE, vol |-> (p :> FileNode(old \o data)) @@ vol,
              err |-> Nothing]
        ELSE [ok |-> FALSE, vol |-> vol, err |-> FsError(code, p)]

\* fs.mkdir(p, {recursive})
fsMkdir(vol, p, recursive) ==
    IF p \in DOMAIN vol
    THEN IF recursive /\ vol[p].dir
         THEN [ok |-> TRUE, vol |-> vol, err |-> Nothing]
         ELSE [ok |-> FALSE, vol |-> vol, err |-> FsError("EEXIST", p)]
    ELSE IF LookupCode(vol, p) = "ENOTDIR"
    THEN [ok |-> FALSE, vol |-> vol, err |-> FsError("ENOTDIR", p)]
    ELSE IF recursive
    THEN [ok |-> TRUE,
          vol |-> [q \in DOMAIN vol \cup {SubSeq(p, 1, k) : k \in 1..Len(p)}
                      |-> IF q \in DOMAIN vol THEN vol[q] ELSE DirNode],
          err |-> Nothing]
    ELSE IF ParentOf(p) \in DOMAIN vol
    THEN [ok |-> TRUE, vol |-> (p :> DirNode) @@ vol, err |-> Nothing]
    ELSE [ok |-> FALSE, vol |-> vol, err |-> FsError("ENOENT", p)]

(***************************************************************************)
(* VirtualShell.changeDirectory and the built-in commands.  A command body *)
(* gives [ok, output, vol, cwd, thrown]: the string it returns or the      *)
(* value it throws, and the volume and directory it leaves behind.         *)
(***************************************************************************)
Returned(output, vol, cwd) ==
    [ok |-> TRUE, output |-> output, vol |-> vol, cwd |-> cwd,
     thrown |-> Nothing]
Threw(value, vol, cwd) ==
    [ok |-> FALSE, output |-> <<>>, vol |-> vol, cwd |-> cwd,
     thrown |-> value]

\* changeDirectory: the new directory and the string the promise resolves to
changeDirectory(vol, cwd, newPath) ==
    LET targetPath == pathResolve(cwd, newPath)
        stats == fsLstat(vol, targetPath)
    IN  IF ~stats.ok
        THEN [cwd |-> cwd, result |-> ERR_NO_SUCH_DIRECTORY(newPath)]
        ELSE IF stats.isDirectory
        THEN [cwd |-> targetPath, result |-> PathString(targetPath)]
        ELSE [cwd |-> cwd, result |-> ERR_NOT_A_DIRECTORY(newPath)]

\* typeof result !== 'string' (cp-command.ts:120): changeDirectory resolves
\* to a string on each of its three paths
ResultIsNotAString(result) == FALSE

\* CdCommand.execute
CdExecute(args, vol, cwd) ==
    IF args = <<>> THEN Threw(Error(ERR_MISSING_PATH), vol, cwd)
    ELSE LET r == changeDirectory(vol, cwd, args[1])
         IN  IF ResultIsNotAString(r.result)
             THEN Threw(Error(r.result), vol, r.cwd)
             ELSE Returned(<<>>, vol, r.cwd)

\* EchoCommand.execute
EchoExecute(args, vol, cwd) ==
    IF args = <<>> THEN Threw(Error(NO_COMMAND(<<"echo">>)), vol, cwd)
    ELSE Returned(Join(args, <<" ">>), vol, cwd)

\* the loop of CatCommand.execute over the resolved paths
RECURSIVE CatLoop(_, _, _, _)
CatLoop(filePaths, output, vol, cwd) ==
    IF filePaths = <<>> THEN Returned(output, vol, cwd)
    ELSE LET filePath == Head(filePaths)
             base == pathBasename(filePath)
             stats == fsLstat(vol, filePath)
             read == fsReadFile(vol, filePath)
             failure ==
                 IF ~stats.ok THEN stats.err
                 ELSE IF stats.isDirectory
                 THEN Error(ERR_NOT_A_DIRECTORY(base))
                 ELSE read.err
         IN  IF stats.ok /\ ~stats.isDirectory /\ read.ok
             THEN CatLoop(Tail(filePaths), output \o read.data, vol, cwd)
             ELSE IF failure.code = "ENOENT"
             THEN Threw(Error(ERR_NO_SUCH_DIRECTORY(base)), vol, cwd)
             ELSE Threw(Error(<<"cat: ">> \o base \o <<": ">>
                                  \o failure.message), vol, cwd)

\* CatCommand.execute
CatExecute(args, vol, cwd) ==
    IF args = <<>> THEN Threw(Error(NO_COMMAND(<<"cat">>)), vol, cwd)
    ELSE CatLoop([i \in 1..Len(args) |-> pathResolve(cwd, args[i])],
                 <<>>, vol, cwd)

\* TouchCommand.execute with createFile and handleError
TouchExecute(args, vol, cwd) ==
    IF args = <<>> THEN Threw(Error(ERR_MISSING_PATH), vol, cwd)
    ELSE LET fileName == args[1]
             filePath == pathResolve(cwd, fileName)
             touched == fsUtimes(vol, filePath)
             created == fsWriteFile(vol, filePath, <<>>)
         IN  IF touched.ok THEN Returned(<<>>, vol, cwd)
             ELSE IF touched.err.code = "ENOENT"
             THEN IF created.ok THEN Returned(<<>>, created.vol, cwd)
                  ELSE Threw(Error(<<"touch: cannot create file '">>
                                       \o PathString(filePath) \o <<"': ">>
                                       \o created.err.message), vol, cwd)
             ELSE Threw(Error(<<"touch: cannot touch '">> \o fileName
                                  \o <<"': ">> \o touched.err.message),
                        vol, cwd)

\* mkdir-command.ts:27-40 - options and directories, or the first letter
\* that is not an option; an argument is an option when it starts with "-"
RECURSIVE MkdirBadOption(_)
MkdirBadOption(args) ==
    IF args = <<>> THEN <<>>
    ELSE LET arg == Head(args)
             bad == {k \in 2..Len(arg) : arg[k] # "p"}
         IN  IF Head(arg) = "-" /\ bad # {}
             THEN <<arg[CHOOSE k \in bad : \A j \in bad : k <= j]>>
             ELSE MkdirBadOption(Tail(args))

MkdirParents(args) ==
    \E i \in 1..Len(args) : Head(args[i]) = "-" /\ Len(args[i]) >= 2

RECURSIVE MkdirDirectories(_, _)
MkdirDirectories(args, cwd) ==
    IF args = <<>> THEN <<>>
    ELSE (IF Head(Head(args)) = "-" THEN <<>>
          ELSE <<pathResolve(cwd, Head(args))>>)
             \o MkdirDirectories(Tail(args), cwd)

\* mkdir-command.ts:42-51 - every directory is tried; the failures add up
RECURSIVE MkdirLoop(_, _, _, _)
MkdirLoop(directories, parents, vol, errors) ==
    IF directories = <<>> THEN [vol |-> vol, errors |-> errors]
    ELSE LET made == fsMkdir(vol, Head(directories), parents)
         IN  MkdirLoop(Tail(directories), parents, made.vol,
                       IF made.ok THEN errors
                       ELSE Append(errors,
                                ERR_MKDIR_CREATE(
                                    pathBasename(Head(directories)),
                                    made.err.message)))

\* MkdirCommand.execute
MkdirExecute(args, vol, cwd) ==
    IF args = <<>> THEN Threw(Error(ERR_MISSING_PATH), vol, cwd)
    ELSE IF MkdirBadOption(args) # <<>>
    THEN Threw(Error(ERR_INVALID_OPERATOR(MkdirBadOption(args))), vol, cwd)
    ELSE LET done == MkdirLoop(MkdirDirectories(args, cwd),
                               MkdirParents(args), vol, <<>>)
         IN  IF done.errors # <<>>
             THEN Threw(Error(Join(done.errors, <<"\n">>)), done.vol, cwd)
             ELSE Returned(<<>>, done.vol, cwd)

\* what the body leaves in r, and the array it was handed as it is when
\* the body is done
WithArgs(r, args) == [args |-> args] @@ r

\* part_002:14-23 - the loop that takes the leading options off the array
\* it was handed: what is left of the array, whether -r or -R was among
\* them, and the first option that is neither
RECURSIVE RmOptions(_, _)
RmOptions(args, recursive) ==
    IF args = <<>> \/ Head(args) = <<>> \/ Head(Head(args)) # "-"
    THEN [args |-> args, recursive |-> recursive, invalid |-> <<>>]
    ELSE IF Head(args) \in {<<"-", "r">>, <<"-", "R">>}
    THEN RmOptions(Tail(args), TRUE)
    ELSE [args |-> Tail(args), recursive |-> recursive,
          invalid |-> Head(args)]

\* part_002:25-64 - after the options: the call of rmFunction is commented
\* out, so nothing is looked up and nothing is removed
RmAfterOptions(options, vol, cwd) ==
    IF options.invalid # <<>>
    THEN WithArgs(Threw(Error(ERR_INVALID_OPERATOR(options.invalid)),
                        vol, cwd), options.args)
    ELSE IF options.args = <<>>
    THEN WithArgs(Threw(Error(ERR_MISSING_PATH), vol, cwd), options.args)
    ELSE WithArgs(Returned(<<>>, vol, cwd), options.args)

\* RmCommand.execute
RmExecute(args, vol, cwd) ==
    IF args = <<>>
    THEN WithArgs(Threw(Error(NO_COMMAND(<<"rm">>)), vol, cwd), args)
    ELSE RmAfterOptions(RmOptions(args, FALSE), vol, cwd)

\* commandInstance.execute(commandArgs), by the class of the instance; a
\* value that is not a command (a method inherited from Object.prototype)
\* has no execute, and calling it throws a TypeError
Execute(class, args, vol, cwd) ==
    CASE class = "EchoCommand" -> WithArgs(EchoExecute(args, vol, cwd), args)
      [] class = "CatCommand" -> WithArgs(CatExecute(args, vol, cwd), args)
      [] class = "CdCommand" -> WithArgs(CdExecute(args, vol, cwd), args)
      [] class = "TouchCommand" -> WithArgs(TouchExecute(args, vol, cwd), args)
      [] class = "MkdirCommand" -> WithArgs(MkdirExecute(args, vol, cwd), args)
      [] class = "RmCommand" -> RmExecute(args, vol, cwd)
      [] OTHER -> WithArgs(
                      Threw(Error(<<"commandInstance.execute is not a function">>),
                            vol, cwd), args)

(***************************************************************************)
(* The hook pipelines.  A hook function is opaque to the shell: when it is *)
(* run it completes or throws, and what it throws is any JavaScript value. *)
(* A pipeline run is given the position of the hook that throws (0 when    *)
(* none does) and the value thrown.                                        *)
(***************************************************************************)
ThrownString == [kind |-> "string", code |-> "", message |-> <<>>]
ThrownNull == [kind |-> "null", code |-> "", message |-> <<>>]
HookThrows == {Error(<<"hook failed">>), Error(<<>>), ThrownString, ThrownNull}

\* this.hooks.get(commandName), an absent key giving nothing to run
HooksFor(hooks, commandName) ==
    IF commandName \in DOMAIN hooks THEN hooks[commandName] ELSE <<>>

\* the hooks of the name run last-registered first
HookRun_reversed(step, hooks, commandName, args, output, failAt) ==
    LET list == HooksFor(hooks, commandName)
        ran == IF failAt = 0 THEN Len(list) ELSE failAt
    IN  [i \in 1..ran |->
            [step |-> step, id |-> list[Len(list) + 1 - i], args |-> args,
             output |-> output]]

\* PreHook.run / PostHook.run: the hooks of the name, in list order, up to
\* and including the one that throws; each gets a copy of args
HookRun(step, hooks, commandName, args, output, failAt) ==
    LET list == HooksFor(hooks, commandName)
        ran == IF failAt = 0 THEN Len(list) ELSE failAt
    IN  [i \in 1..ran |->
            [step |-> step, id |-> list[i], args |-> args, output |-> output]]

(***************************************************************************)
(* VirtualShell.stdout / stderr, processRedirection and executeCommand.    *)
(* A call gives [settled, ret, events, trace, vol, cwd]: whether the       *)
(* promise resolved, the string it resolved to, the events emitted, the    *)
(* hooks, body and redirection that ran (in order), and the volume and     *)
(* directory afterwards.                                                   *)
(***************************************************************************)
Outcome(settled, ret, events, trace, vol, cwd) ==
    [settled |-> settled, ret |-> ret, events |-> events, trace |-> trace,
     vol |-> vol, cwd |-> cwd]

\* stdout(message): frames the message, emits it, returns it
stdout(message, trace, vol, cwd) ==
    Outcome("resolved", Namespace \o message,
            <<[type |-> "stdout", message |-> Namespace \o message]>>,
            trace, vol, cwd)

\* stderr(message): frames the message, emits it, returns it
stderr(message, trace, vol, cwd) ==
    Outcome("resolved", Namespace \o message,
            <<[type |-> "stderr", message |-> Namespace \o message]>>,
            trace, vol, cwd)

\* the catch blocks: (err as Error).message || ERR_UNKNOWN.  Reading
\* .message of null or undefined throws a TypeError out of the handler,
\* which rejects the promise of the enclosing async function.
Caught(err, prefix, trace, vol, cwd) ==
    IF err.kind = "null"
    THEN Outcome("rejected", <<>>, <<>>, trace, vol, cwd)
    ELSE stderr(prefix \o (IF err.message # <<>> THEN err.message
                           ELSE ERR_UNKNOWN), trace, vol, cwd)

processRedirection(output, operator, targetFile, commandName, trace, vol, cwd) ==
    LET filePath == pathResolve(cwd, targetFile)
        data == output \o <<"\n">>
        written == IF operator = <<">">>
                   THEN fsWriteFile(vol, filePath, data)
                   ELSE fsAppendFile(vol, filePath, data)
        applied == Append(trace, [step |-> "redirect", id |-> 0,
                                  args |-> <<operator, PathString(filePath)>>,
                                  output |-> output])
    IN  IF ~fsAccess(vol, filePath)
        THEN stderr(ERR_PERMISSION_DENIED(PathString(filePath)),
                    applied, vol, cwd)
        ELSE IF operator # <<">">> /\ operator # <<">", ">">>
        THEN stderr(ERR_INVALID_OPERATOR(operator), applied, vol, cwd)
        ELSE IF written.ok
        THEN stdout(<<>>, applied, written.vol, cwd)
        ELSE Caught(written.err, commandName \o <<": ">>, applied, vol, cwd)

\* the properties every object inherits from Object.prototype (the model
\* keeps two of them); `name in this.commands` is true of them too
ObjectPrototype == {<<"toString">>, <<"constructor">>}

\* commandName in this.commands (virtual-shell.ts:88)
HasCommand(registry, commandName) ==
    commandName \in DOMAIN registry \/ commandName \in ObjectPrototype

\* the class of this.commands[commandName]
CommandClass(registry, commandName) ==
    IF commandName \in DOMAIN registry THEN registry[commandName]
    ELSE "Function"

\* a pipeline in which a post-hook takes the place of the redirection
AfterBody_hooksReplaceRedirection(parsed, commandName, commandArgs, postFail, thrown, post, bodyTrace, body) ==
    IF postFail # 0
    THEN Caught(thrown, <<>>,
                bodyTrace \o HookRun("post", post, commandName, body.args,
                                     body.output, postFail),
                body.vol, body.cwd)
    ELSE IF /\ parsed.redirectionOperator # <<>>
            /\ parsed.targetFile # <<>>
            /\ HooksFor(post, commandName) = <<>>
    THEN processRedirection(body.output, parsed.redirectionOperator,
                            parsed.targetFile, commandName, bodyTrace,
                            body.vol, body.cwd)
    ELSE Outcome("resolved", body.output, <<>>,
                 bodyTrace \o HookRun("post", post, commandName, body.args,
                                      body.output, 0),
                 body.vol, body.cwd)

\* virtual-shell.ts:101-105 - after the body returned: the post-hooks, then
\* the redirection or the body's output as it is.  The body was handed
\* commandArgs itself, and the post-hooks get copies of that array as the
\* body left it
AfterBody(parsed, commandName, commandArgs, postFail, thrown, post, bodyTrace, body) ==
    IF postFail # 0
    THEN Caught(thrown, <<>>,
                bodyTrace \o HookRun("post", post, commandName, body.args,
                                     body.output, postFail),
                body.vol, body.cwd)
    ELSE IF parsed.redirectionOperator # <<>> /\ parsed.targetFile # <<>>
    THEN processRedirection(body.output, parsed.redirectionOperator,
                            parsed.targetFile, commandName,
                            bodyTrace \o HookRun("post", post, commandName,
                                                 body.args, body.output, 0),
                            body.vol, body.cwd)
    ELSE Outcome("resolved", body.output, <<>>,
                 bodyTrace \o HookRun("post", post, commandName, body.args,
                                      body.output, 0),
                 body.vol, body.cwd)

\* virtual-shell.ts:94-100 - after the pre-hooks completed: the body
AfterPreHooks(parsed, commandName, commandArgs, postFail, thrown, post, preTrace, body) ==
    IF ~body.ok
    THEN Caught(body.thrown, <<>>,
                Append(preTrace, [step |-> "body", id |-> 0,
                                  args |-> commandArgs, output |-> <<>>]),
                body.vol, body.cwd)
    ELSE AfterBody(parsed, commandName, commandArgs, postFail, thrown, post,
                   Append(preTrace, [step |-> "body", id |-> 0,
                                     args |-> commandArgs,
                                     output |-> body.output]),
                   body)

\* virtual-shell.ts:84-93 - the checks on the name, then the pre-hooks
Dispatch(parsed, commandName, commandArgs, preFail, postFail, thrown, registry, pre, post, vol, cwd) ==
    IF commandName = <<>>
    THEN stderr(NO_COMMAND(<<"bash">>), <<>>, vol, cwd)
    ELSE IF ~HasCommand(registry, commandName)
    THEN stderr(ERR_CMD_NOT_FOUND(commandName), <<>>, vol, cwd)
    ELSE IF preFail # 0
    THEN Caught(thrown, <<>>,
                HookRun("pre", pre, commandName, commandArgs, <<>>, preFail),
                vol, cwd)
    ELSE AfterPreHooks(parsed, commandName, commandArgs, postFail, thrown,
                       post,
                       HookRun("pre", pre, commandName, commandArgs, <<>>, 0),
                       Execute(CommandClass(registry, commandName),
                               commandArgs, vol, cwd))

\* virtual-shell.ts:65-82 - tokenizing the command input
Tokenized(parsed, args, preFail, postFail, thrown, registry, pre, post, vol, cwd) ==
    Dispatch(parsed, commandNameOf(args), commandArgsOf(args),
             preFail, postFail, thrown, registry, pre, post, vol, cwd)

\* virtual-shell.ts:64-65 - the line split into command input and redirection
Extracted(parsed, preFail, postFail, thrown, registry, pre, post, vol, cwd) ==
    Tokenized(parsed, shellQuoteParse(parsed.commandInput),
              preFail, postFail, thrown, registry, pre, post, vol, cwd)

\* executeCommand(command), with the hook that throws in each pipeline
\* (0: none) and the value it throws
executeCommand(command, preFail, postFail, thrown, registry, pre, post, vol, cwd) ==
    IF isInvalidCommand(command)
    THEN stderr(NO_COMMAND(<<"bash">>), <<>>, vol, cwd)
    ELSE Extracted(extractRedirection(command),
                   preFail, postFail, thrown, registry, pre, post, vol, cwd)

(***************************************************************************)
(* The state machine.                                                      *)
(***************************************************************************)
\* the record of a call; tick flips at every call, so that two calls in a
\* row always differ
CallRecord(tick, command, r) ==
    [called |-> TRUE, tick |-> tick, line |-> command,
     settled |-> r.settled, ret |-> r.ret, events |-> r.events,
     trace |-> r.trace]

NoCall ==
    [called |-> FALSE, tick |-> FALSE, line |-> <<>>, settled |-> "resolved",
     ret |-> <<>>, events |-> <<>>, trace |-> <<>>]

\* this.fs = createFsFromVolume(this.volume).promises: the handle is on the
\* object this.volume refers to; `other` holds the content of the object
\* the handle is on when that is not this.volume
OnVolume == [onVolume |-> TRUE, other |-> EmptyVolume]

\* what the commands and the redirection see through this.fs
FsView == IF fs.onVolume THEN volume ELSE fs.other

\* serializeVolume has not been called
NoSnapshot ==
    [taken |-> FALSE, text |-> <<>>, of |-> EmptyVolume,
     tick |-> FALSE, given |-> <<>>, ok |-> TRUE]

\* new VirtualShell(): no option is given
NoOptions ==
    [serializedVolume |-> <<>>, currentDirectory |-> <<>>, user |-> <<>>]

\* the constructor returned and no module import is under way
Constructed ==
    [phase |-> "constructed", user |-> <<"guest">>, pending |-> <<>>,
     rejected |-> Nothing, options |-> NoOptions, tick |-> FALSE]

\* executeFunction has not been called: no isolate was made, none is live
NoIsolates ==
    [called |-> FALSE, tick |-> FALSE, made |-> 0, live |-> {},
     script |-> <<>>, fault |-> "none", settled |-> "resolved",
     stdout |-> <<>>, stderr |-> <<>>]

\* extractRedirection has been given no line
NoLine == [line |-> <<>>, applied |-> FALSE, result |-> <<>>]

\* the constructor with no options: new Volume(), "/", empty registry and
\* empty hook maps; nothing has been executed
Init ==
    /\ volume = EmptyVolume
    /\ currentDirectory = <<>>
    /\ commands = <<>>
    /\ preHooks = <<>>
    /\ postHooks = <<>>
    /\ last = NoCall
    /\ fs = OnVolume
    /\ snapshot = NoSnapshot
    /\ construction = Constructed
    /\ sandbox = NoIsolates
    /\ extraction = NoLine

\* registerCommand(name, commandInstance)
registerCommand(name, class) ==
    /\ commands' = (name :> class) @@ commands
    /\ UNCHANGED <<volume, currentDirectory, preHooks, postHooks, last>>
    /\ UNCHANGED <<fs, snapshot, construction, sandbox, extraction>>

\* the number of hook functions registered so far, over both pipelines
RECURSIVE HookCount(_, _)
HookCount(hooks, names) ==
    IF names = {} THEN 0
    ELSE LET n == CHOOSE n \in names : TRUE
         IN  Len(hooks[n]) + HookCount(hooks, names \ {n})

HooksRegistered ==
    HookCount(preHooks, DOMAIN preHooks)
        + HookCount(postHooks, DOMAIN postHooks)

\* PreHook.register(commandName, hookFunction); the function registered is
\* a new one, identified by its number
PreHookRegister(commandName) ==
    /\ HooksRegistered < MaxHooks
    /\ preHooks' = (commandName :> Append(HooksFor(preHooks, commandName),
                                          HooksRegistered + 1)) @@ preHooks
    /\ UNCHANGED <<volume, currentDirectory, commands, postHooks, last>>
    /\ UNCHANGED <<fs, snapshot, construction, sandbox, extraction>>

\* PostHook.register(commandName, hookFunction)
PostHookRegister(commandName) ==
    /\ HooksRegistered < MaxHooks
    /\ postHooks' = (commandName :> Append(HooksFor(postHooks, commandName),
                                           HooksRegistered + 1)) @@ postHooks
    /\ UNCHANGED <<volume, currentDirectory, commands, preHooks, last>>
    /\ UNCHANGED <<fs, snapshot, construction, sandbox, extraction>>

\* the shell after a call that ended as r: the commands and the
\* redirection went through this.fs, so what they did is in the volume
\* object that handle is on
Settle(command, r) ==
    /\ \A q \in DOMAIN r.vol : Len(r.vol[q].data) <= MaxData
    /\ volume' = (IF fs.onVolume THEN r.vol ELSE volume)
    /\ fs' = (IF fs.onVolume THEN fs ELSE [fs EXCEPT !.other = r.vol])
    /\ currentDirectory' = r.cwd
    /\ last' = CallRecord(~last.tick, command, r)
    /\ UNCHANGED <<commands, preHooks, postHooks>>
    /\ UNCHANGED <<snapshot, construction, sandbox, extraction>>

\* one call of executeCommand, from the call to the settling of its promise
ExecuteCommand(command, preFail, postFail, thrown) ==
    /\ preFail = 0 \/ postFail = 0
    /\ Settle(command,
              executeCommand(command, preFail, postFail, thrown,
                             commands, preHooks, postHooks,
                             FsView, currentDirectory))

(***************************************************************************)
(* Snapshots.  volume.toJSON() gives a flat object: each file under its    *)
(* path string with its content, each empty directory other than the root  *)
(* with null.  JSON.stringify writes that object as text, JSON.parse reads *)
(* the text back, and Volume.fromJSON builds a volume from the object,     *)
(* making the directories on the way to each path.                         *)
(***************************************************************************)
JsonNull == [null |-> TRUE, data |-> <<>>]
JsonString(data) == [null |-> FALSE, data |-> data]

\* the directory has no entry
IsEmptyDir(vol, p) ==
    /\ vol[p].dir
    /\ ~\E q \in DOMAIN vol : q # <<>> /\ ParentOf(q) = p

\* the paths toJSON writes down
JsonPaths(vol) ==
    {p \in DOMAIN vol : p # <<>> /\ (~vol[p].dir \/ IsEmptyDir(vol, p))}

\* a toJSON that writes down the files only
toJSON_filesOnly(vol) ==
    [k \in {PathString(p) : p \in {q \in JsonPaths(vol) : ~vol[q].dir}} |->
        JsonString(vol[pathResolve(<<>>, k)].data)]

\* this.volume.toJSON()
toJSON(vol) ==
    [k \in {PathString(p) : p \in JsonPaths(vol)} |->
        IF vol[pathResolve(<<>>, k)].dir THEN JsonNull
        ELSE JsonString(vol[pathResolve(<<>>, k)].data)]

\* the text of a string value: a newline is written as the escape \n
Escape(data) ==
    [i \in 1..Len(data) |-> IF data[i] = "\n" THEN "\\n" ELSE data[i]]

Unescape(text) ==
    [i \in 1..Len(text) |-> IF text[i] = "\\n" THEN "\n" ELSE text[i]]

JSONvalue(v) ==
    IF v.null THEN <<"null">> ELSE <<"\"">> \o Escape(v.data) \o <<"\"">>

RECURSIVE JSONentries(_, _)
JSONentries(json, keys) ==
    IF keys = {} THEN <<>>
    ELSE LET k == CHOOSE k \in keys : TRUE
         IN  <<"\"">> \o k \o <<"\"", ":">> \o JSONvalue(json[k])
                 \o (IF keys = {k} THEN <<>> ELSE <<",">>)
                 \o JSONentries(json, keys \ {k})

\* JSON.stringify of a flat object
JSONstringify(json) == <<"{">> \o JSONentries(json, DOMAIN json) \o <<"}">>

\* the place of the first double quote of a text, 0 when it has none
QuoteAt(text) ==
    IF \E i \in 1..Len(text) : text[i] = "\""
    THEN CHOOSE i \in 1..Len(text) :
            /\ text[i] = "\""
            /\ \A j \in 1..(i - 1) : text[j] # "\""
    ELSE 0

SyntaxError == [ok |-> FALSE, json |-> <<>>]

\* what follows a value: a comma and more entries, or the closing brace
RECURSIVE ParseEntries(_, _)
ParseRest(text, json) ==
    IF text = <<"}">> THEN [ok |-> TRUE, json |-> json]
    ELSE IF Len(text) > 1 /\ Head(text) = ","
    THEN ParseEntries(Tail(text), json)
    ELSE SyntaxError

\* the value of the entry named key, at the head of text
ParseValue(key, text, json) ==
    IF text = <<>> THEN SyntaxError
    ELSE IF Head(text) = "null"
    THEN ParseRest(Tail(text), (key :> JsonNull) @@ json)
    ELSE IF Head(text) = "\"" /\ QuoteAt(Tail(text)) > 0
    THEN ParseRest(SubSeq(text, QuoteAt(Tail(text)) + 2, Len(text)),
                   (key :> JsonString(Unescape(
                       SubSeq(text, 2, QuoteAt(Tail(text)))))) @@ json)
    ELSE SyntaxError

\* an entry: a quoted key, a colon and a value
ParseEntries(text, json) ==
    IF /\ text # <<>>
       /\ Head(text) = "\""
       /\ QuoteAt(Tail(text)) > 0
       /\ Len(text) > QuoteAt(Tail(text)) + 1
       /\ text[QuoteAt(Tail(text)) + 2] = ":"
    THEN ParseValue(SubSeq(text, 2, QuoteAt(Tail(text))),
                    SubSeq(text, QuoteAt(Tail(text)) + 3, Len(text)), json)
    ELSE SyntaxError

\* JSON.parse of the text of a flat object; any other text is a
\* SyntaxError
JSONparse(text) ==
    IF text = <<"{", "}">> THEN [ok |-> TRUE, json |-> <<>>]
    ELSE IF text # <<>> /\ Head(text) = "{"
    THEN ParseEntries(Tail(text), <<>>)
    ELSE SyntaxError

\* one entry of the object put into the volume: a string becomes a file
\* in its directory, made with its ancestors if need be; null becomes a
\* directory made the same way
FromEntry(vol, p, v) ==
    IF v.null THEN fsMkdir(vol, p, TRUE)
    ELSE IF ~fsMkdir(vol, ParentOf(p), TRUE).ok
    THEN fsMkdir(vol, ParentOf(p), TRUE)
    ELSE fsWriteFile(fsMkdir(vol, ParentOf(p), TRUE).vol, p, v.data)

RECURSIVE FromEntries(_, _, _)
FromEntries(json, keys, vol) ==
    IF keys = {} THEN [ok |-> TRUE, vol |-> vol, err |-> Nothing]
    ELSE LET k == CHOOSE k \in keys : TRUE
             r == FromEntry(vol, pathResolve(<<>>, k), json[k])
         IN  IF r.ok THEN FromEntries(json, keys \ {k}, r.vol) ELSE r

\* Volume.fromJSON(json)
fromJSON(json) == FromEntries(json, DOMAIN json, EmptyVolume)

\* serializeVolume()
serializeVolume(vol) == JSONstringify(toJSON(vol))

\* the TypeError of reading a property of undefined
TypeError == Error(<<"TypeError">>)

\* deserializeVolume(serializedVolume), hasVolume telling whether
\* this.volume refers to a volume when it is called.  this.volume.reset()
\* comes first: without a volume it is a TypeError; with one the volume is
\* emptied, and if the text then does not parse or the object cannot be
\* built, the exception leaves this.volume and this.fs on the emptied
\* object
deserializeVolume(serializedVolume, hasVolume, handle) ==
    IF ~hasVolume
    THEN [ok |-> FALSE, volume |-> EmptyVolume, fs |-> handle,
          thrown |-> TypeError]
    ELSE IF ~JSONparse(serializedVolume).ok
    THEN [ok |-> FALSE, volume |-> EmptyVolume, fs |-> handle,
          thrown |-> Error(<<"SyntaxError">>)]
    ELSE IF ~fromJSON(JSONparse(serializedVolume).json).ok
    THEN [ok |-> FALSE, volume |-> EmptyVolume, fs |-> handle,
          thrown |-> fromJSON(JSONparse(serializedVolume).json).err]
    ELSE [ok |-> TRUE,
          volume |-> fromJSON(JSONparse(serializedVolume).json).vol,
          fs |-> OnVolume, thrown |-> Nothing]

\* a call of serializeVolume: the caller keeps the string
SerializeVolume ==
    /\ snapshot' = [snapshot EXCEPT !.taken = TRUE,
                                    !.text = serializeVolume(volume),
                                    !.of = volume]
    /\ UNCHANGED <<volume, currentDirectory, commands, preHooks, postHooks,
                   last, fs, construction, sandbox, extraction>>

\* the shell after a restore that ended as r
Restored(serializedVolume, r) ==
    /\ volume' = r.volume
    /\ fs' = r.fs
    /\ snapshot' = [snapshot EXCEPT !.tick = ~@,
                                    !.given = serializedVolume,
                                    !.ok = r.ok]
    /\ UNCHANGED <<currentDirectory, commands, preHooks, postHooks, last,
                   construction, sandbox, extraction>>

\* a call of deserializeVolume
DeserializeVolume(serializedVolume) ==
    Restored(serializedVolume,
             deserializeVolume(serializedVolume, TRUE, fs))

\* changeDirectory(newPath), called on the shell itself
ChangeDirectory(newPath) ==
    /\ currentDirectory'
           = changeDirectory(FsView, currentDirectory, newPath).cwd
    /\ UNCHANGED <<volume, commands, preHooks, postHooks, last, fs, snapshot,
                   construction, sandbox, extraction>>

(***************************************************************************)
(* Construction.  What a module exports is described by what               *)
(* isValidCommand looks at: the type of the export, the prototype of the   *)
(* export itself, and the objects on the prototype chain of its            *)
(* `prototype` property.  A file of the commands directory is its name     *)
(* followed by its suffix.                                                 *)
(***************************************************************************)
\* class X extends BaseCommand
SubclassOfBaseCommand ==
    [class |-> "EchoCommand", typeof |-> "function", proto |-> "BaseCommand",
     chain |-> {"BaseCommand.prototype", "Object.prototype"}]

\* a function or class that has nothing to do with BaseCommand
PlainFunction ==
    [class |-> "Function", typeof |-> "function",
     proto |-> "Function.prototype", chain |-> {"Object.prototype"}]

\* a function whose prototype object inherits from the BaseCommand
\* constructor itself
InheritsConstructor ==
    [class |-> "Function", typeof |-> "function",
     proto |-> "Function.prototype",
     chain |-> {"BaseCommand", "Function.prototype", "Object.prototype"}]

\* a module without a function among its exports
NoFunctionExport ==
    [class |-> "", typeof |-> "undefined", proto |-> "", chain |-> {}]

\* isValidCommand(CommandClass)
isValidCommand(exported) ==
    /\ exported.typeof = "function"
    /\ exported.proto = "Function.prototype"
    /\ "BaseCommand" \in exported.chain

\* file.endsWith('.js')
EndsWithJs(file) ==
    file # <<>> /\ file[Len(file)] \in {"-command.js", ".js"}

\* file.replace('-command.js', '').toLowerCase()
CommandNameOfFile(file) ==
    IF file[Len(file)] = "-command.js" THEN SubSeq(file, 1, Len(file) - 1)
    ELSE file

\* path.resolve('commands', file): under the working directory of the
\* process
CommandPath(file) == <<"cwd", "/", "commands", "/">> \o file

\* one turn of the loop of importCommandModules on a discovered file:
\* loaded tells whether the dynamic import found the module
importCommandModule(entry, loaded, registry) ==
    IF ~EndsWithJs(entry.file)
    THEN [ok |-> TRUE, commands |-> registry, thrown |-> Nothing]
    ELSE IF ~loaded
    THEN [ok |-> FALSE, commands |-> registry,
          thrown |-> Error(<<"Cannot find module ">>
                               \o CommandPath(entry.file))]
    ELSE IF entry.exports.typeof = "function" /\ isValidCommand(entry.exports)
    THEN [ok |-> TRUE,
          commands |-> (CommandNameOfFile(entry.file) :> entry.exports.class)
                           @@ registry,
          thrown |-> Nothing]
    ELSE [ok |-> FALSE, commands |-> registry,
          thrown |-> Error(ERR_INVALID_COMMAND_CLASS(
                               CommandPath(entry.file)))]

\* value || fallback
OrElse(value, fallback) == IF value = <<>> THEN fallback ELSE value

\* the constructor up to the start of the import: an option that is not
\* given is the empty string here.  Object.assign(this, options) at the
\* end copies the options given over the fields, which for an option that
\* is not empty is the value the field has already
NewShell(options, restored) ==
    IF options.serializedVolume # <<>> /\ ~restored.ok
    THEN [ok |-> FALSE, thrown |-> restored.thrown, volume |-> EmptyVolume,
          cwd |-> <<>>, user |-> <<>>]
    ELSE [ok |-> TRUE, thrown |-> Nothing,
          volume |-> (IF options.serializedVolume # <<>>
                      THEN restored.volume ELSE EmptyVolume),
          cwd |-> pathResolve(<<>>, OrElse(options.currentDirectory,
                                           <<"/">>)),
          user |-> OrElse(options.user, <<"guest">>)]

\* the state after new VirtualShell(options) ended as made, the commands
\* directory holding the files listed: if the constructor threw, the
\* caller has no shell; else it has a new one, whose import of the files
\* has begun and goes on after the constructor returned
Made(options, files, made) ==
    /\ construction' =
          [phase |-> (IF made.ok THEN "constructed" ELSE "threw"),
           user |-> made.user,
           pending |-> (IF made.ok THEN files ELSE <<>>),
           rejected |-> made.thrown,
           options |-> options,
           tick |-> ~construction.tick]
    /\ volume' = made.volume
    /\ fs' = OnVolume
    /\ currentDirectory' = made.cwd
    /\ commands' = <<>>
    /\ preHooks' = <<>>
    /\ postHooks' = <<>>
    /\ last' = NoCall
    /\ UNCHANGED <<snapshot, sandbox, extraction>>

\* new VirtualShell(options): this.volume is not set yet when the
\* constructor calls deserializeVolume
Construct(options, files) ==
    Made(options, files,
         NewShell(options,
                  deserializeVolume(options.serializedVolume, FALSE,
                                    OnVolume)))

\* the import after one more turn that ended as r: a throw ends the loop
\* and rejects the promise nobody waits for
Imported(r) ==
    /\ commands' = r.commands
    /\ construction' =
          [construction EXCEPT !.pending = IF r.ok THEN Tail(@) ELSE <<>>,
                               !.rejected = r.thrown]
    /\ UNCHANGED <<volume, currentDirectory, preHooks, postHooks, last, fs,
                   snapshot, sandbox, extraction>>

\* importCommandModules goes on with the next file
ImportCommandModule(loaded) ==
    /\ construction.phase = "constructed"
    /\ construction.pending # <<>>
    /\ Imported(importCommandModule(Head(construction.pending), loaded,
                                    commands))

(***************************************************************************)
(* The sandbox of BaseCommand.  A script is what it passes to console.log  *)
(* and console.error and how it ends; a fault is the step of the isolate   *)
(* machinery that fails, if any.                                           *)
(***************************************************************************)
NoFault == "none"

\* the steps of setupIsolate after the isolate was allocated
SetupFaults ==
    {"createContext", "setGlobal", "setConsole", "bindFs", "setProcess"}

\* the steps of executeFunction before the script runs
TryFaults == {"copyParams", "compileScript"}

FaultError(fault) == Error(<<fault, " failed">>)

\* base-command.ts:72-79 - what consoleRef.log (or .error) has appended to
\* its accumulator after the calls given: each call's text and a newline
RECURSIVE consoleRef(_)
consoleRef(calls) ==
    IF calls = <<>> THEN <<>>
    ELSE <<Head(calls), "\n">> \o consoleRef(Tail(calls))

\* setupIsolate(memoryLimit): output and errorOutput are returned by
\* value, as the empty strings they are before any script has run
setupIsolate(fault) ==
    IF fault = "allocate"
    THEN [ok |-> FALSE, allocated |-> FALSE, thrown |-> FaultError(fault),
          output |-> <<>>, errorOutput |-> <<>>]
    ELSE IF fault \in SetupFaults
    THEN [ok |-> FALSE, allocated |-> TRUE, thrown |-> FaultError(fault),
          output |-> <<>>, errorOutput |-> <<>>]
    ELSE [ok |-> TRUE, allocated |-> TRUE, thrown |-> Nothing,
          output |-> <<>>, errorOutput |-> <<>>]

\* what `await script.run(context, {timeout})` throws, if anything
RunThrows(script) ==
    IF script.end = "throws" THEN script.thrown
    ELSE IF script.end = "timeout"
    THEN Error(<<"Script execution timed out.">>)
    ELSE IF script.end = "memory"
    THEN Error(<<"Isolate was disposed during execution due to memory limit">>)
    ELSE Nothing

\* what the try block throws, if anything
TryThrows(script, fault) ==
    IF fault \in TryFaults THEN FaultError(fault) ELSE RunThrows(script)

\* the engine disposed of the isolate itself: the script ran out of memory
EngineDisposed(script, fault) == fault = NoFault /\ script.end = "memory"

\* base-command.ts:134-136 - the value of the return statement reached
Returns(setup, thrown) ==
    IF thrown = Nothing
    THEN [stdout |-> Trim(setup.output), stderr |-> Trim(setup.errorOutput)]
    ELSE [stdout |-> Trim(setup.output),
          stderr |-> (IF thrown.kind = "Error" THEN thrown.message
                      ELSE <<"Unknown error">>)]

\* base-command.ts:125-139 - try, catch and finally: isolate.dispose()
\* throws on an isolate that is disposed already, and what finally throws
\* replaces the value returned
TryCatchFinally(setup, thrown, engineDisposed) ==
    IF engineDisposed
    THEN [settled |-> "rejected", disposed |-> TRUE,
          stdout |-> <<>>, stderr |-> <<>>]
    ELSE [settled |-> "resolved", disposed |-> TRUE,
          stdout |-> Returns(setup, thrown).stdout,
          stderr |-> Returns(setup, thrown).stderr]

\* executeFunction(func, params, timeout, memoryLimit)
executeFunction(script, fault, setup) ==
    IF ~setup.ok
    THEN [settled |-> "rejected", disposed |-> FALSE,
          stdout |-> <<>>, stderr |-> <<>>]
    ELSE TryCatchFinally(setup, TryThrows(script, fault),
                         EngineDisposed(script, fault))

\* the sandbox after a call that ended as r
Executed(script, fault, setup, r) ==
    /\ sandbox' =
          [called |-> TRUE, tick |-> ~sandbox.tick,
           made |-> sandbox.made + (IF setup.allocated THEN 1 ELSE 0),
           live |-> sandbox.live
                       \cup (IF setup.allocated /\ ~r.disposed
                             THEN {sandbox.made + 1} ELSE {}),
           script |-> script, fault |-> fault, settled |-> r.settled,
           stdout |-> r.stdout, stderr |-> r.stderr]
    /\ UNCHANGED <<volume, currentDirectory, commands, preHooks, postHooks,
                   last, fs, snapshot, construction, extraction>>

\* one call of executeFunction, from the call to the settling of its
\* promise
ExecuteFunction(script, fault) ==
    /\ sandbox.made < MaxIsolates
    /\ Executed(script, fault, setupIsolate(fault),
                executeFunction(script, fault, setupIsolate(fault)))

(***************************************************************************)
(* The command lines and registrations the callers of the model issue.     *)
(***************************************************************************)
EchoOne == <<"echo", " ", "one">>
EchoOneToF == <<"echo", " ", "one", " ", ">", " ", "f">>
EchoTwoAppendF == <<"echo", " ", "two", " ", ">", ">", " ", "f">>
CatF == <<"cat", " ", "f">>
TouchF == <<"touch", " ", "f">>

\* lines that reach neither a hook nor a command
BadLines ==
    {<<>>, <<" ", " ">>, <<"*">>, <<">", " ", "f">>,
     <<"nosuchcmd", " ", "one">>, <<"toString">>}

\* the lines of the pipeline specification
PipelineLines ==
    BadLines \cup {EchoOne, <<"echo">>, EchoOneToF, TouchF}

PipelineRegistrations ==
    {<<<<"echo">>, "EchoCommand">>, <<<<"touch">>, "TouchCommand">>}

\* the lines of the filesystem specification
FsLines ==
    {EchoOne, EchoOneToF, EchoTwoAppendF, CatF, TouchF,
     <<"echo", " ", "one", " ", ">", " ", "/", "tmp">>,
     <<"mkdir", " ", "/", "tmp">>,
     <<"cd", " ", "/", "tmp">>,
     <<"cd", " ", ".", ".">>,
     <<"cd", " ", "f">>,
     <<"cd", " ", "/", "does", "/", "not", "/", "exist">>,
     <<"cd", " ", "tmp", " ", ">", " ", "f">>}

FsRegistrations ==
    {<<<<"echo">>, "EchoCommand">>, <<<<"cat">>, "CatCommand">>,
     <<<<"cd">>, "CdCommand">>, <<<<"touch">>, "TouchCommand">>,
     <<<<"mkdir">>, "MkdirCommand">>}

\* the name a line invokes
LineName(command) ==
    commandNameOf(shellQuoteParse(extractRedirection(command).commandInput))

\* the pipeline specification: two commands, hooks on them, and every kind
\* of line; any hook of the invoked name may throw any value
Next ==
    \/ \E reg \in PipelineRegistrations : registerCommand(reg[1], reg[2])
    \/ \E reg \in PipelineRegistrations : PreHookRegister(reg[1])
    \/ \E reg \in PipelineRegistrations : PostHookRegister(reg[1])
    \/ \E command \in PipelineLines :
          \/ ExecuteCommand(command, 0, 0, ThrownNull)
          \/ \E preFail \in 1..Len(HooksFor(preHooks, LineName(command))),
                thrown \in HookThrows :
                ExecuteCommand(command, preFail, 0, thrown)
          \/ \E postFail \in 1..Len(HooksFor(postHooks, LineName(command))),
                thrown \in HookThrows :
                ExecuteCommand(command, 0, postFail, thrown)

Spec == Init /\ [][Next]_vars

\* the filesystem specification: the file commands, no hooks
NextFs ==
    \/ \E reg \in FsRegistrations : registerCommand(reg[1], reg[2])
    \/ \E command \in FsLines :
          ExecuteCommand(command, 0, 0, ThrownNull)

SpecFs == Init /\ [][NextFs]_vars

\* the lines and the strings of the snapshot specification
SnapshotLines ==
    {TouchF, EchoOneToF, <<"touch", " ", "g">>,
     <<"mkdir", " ", "-", "p", " ", "/", "tmp", "/", "sub">>}

SnapshotRegistrations ==
    {<<<<"echo">>, "EchoCommand">>, <<<<"touch">>, "TouchCommand">>,
     <<<<"mkdir">>, "MkdirCommand">>}

\* strings no serializeVolume call gave
ForeignTexts == {<<"not json">>, <<"{", "}">>}

\* the snapshot specification: the volume is changed by commands, written
\* down at any time and restored at any time, from the string last written
\* down or from a string of another origin
NextSnapshot ==
    \/ \E reg \in SnapshotRegistrations : registerCommand(reg[1], reg[2])
    \/ \E command \in SnapshotLines :
          ExecuteCommand(command, 0, 0, ThrownNull)
    \/ SerializeVolume
    \/ snapshot.taken /\ DeserializeVolume(snapshot.text)
    \/ \E text \in ForeignTexts : DeserializeVolume(text)

SpecSnapshot == Init /\ [][NextSnapshot]_vars

\* what the caller passes to the constructor
ConstructorOptions ==
    {[serializedVolume |-> text, currentDirectory |-> cwd, user |-> user] :
        text \in {<<>>} \cup (IF snapshot.taken THEN {snapshot.text}
                              ELSE {}),
        cwd \in {<<>>, <<"/", "tmp">>},
        user \in {<<>>, <<"root">>}}

\* what the commands directory may hold
CommandsDirectories ==
    {<<>>,
     <<[file |-> <<"README", ".md">>, exports |-> NoFunctionExport],
       [file |-> <<"echo", "-command.js">>,
        exports |-> SubclassOfBaseCommand]>>,
     <<[file |-> <<"odd", "-command.js">>, exports |-> InheritsConstructor],
       [file |-> <<"plain", ".js">>, exports |-> PlainFunction]>>,
     <<[file |-> <<"empty", "-command.js">>,
        exports |-> NoFunctionExport]>>}

ConstructionLines == {TouchF, <<"odd">>}

\* the construction specification: a shell is used, written down and
\* replaced by a new one at any time; whoever holds a shell calls its
\* public operations while its import goes on
NextConstruction ==
    \/ \E options \in ConstructorOptions, files \in CommandsDirectories :
          Construct(options, files)
    \/ \E loaded \in BOOLEAN : ImportCommandModule(loaded)
    \/ /\ construction.phase = "constructed"
       /\ \/ registerCommand(<<"touch">>, "TouchCommand")
          \/ \E command \in ConstructionLines :
                ExecuteCommand(command, 0, 0, ThrownNull)
          \/ SerializeVolume

SpecConstruction == Init /\ [][NextConstruction]_vars

\* the functions given to the sandbox
Scripts ==
    {[logs |-> logs, errors |-> errors, end |-> "returns",
      thrown |-> Nothing] :
        logs \in {<<>>, <<"a">>}, errors \in {<<>>, <<"e">>}}
    \cup {[logs |-> logs, errors |-> <<>>, end |-> "throws",
           thrown |-> thrown] :
            logs \in {<<>>, <<"a">>},
            thrown \in {Error(<<"boom">>), Error(<<>>), ThrownString}}
    \cup {[logs |-> <<"a">>, errors |-> <<>>, end |-> end,
           thrown |-> Nothing] :
            end \in {"timeout", "memory"}}

Faults == {NoFault, "allocate"} \cup SetupFaults \cup TryFaults

\* the sandbox specification: a command calls executeFunction with any
\* function, and any step of the isolate machinery may fail
NextSandbox ==
    \E script \in Scripts, fault \in Faults : ExecuteFunction(script, fault)

SpecSandbox == Init /\ [][NextSandbox]_vars

\* the removals: rm beside touch, hooks on either, and lines that give rm an
\* existing file, a missing one, an option, an option it does not know and
\* nothing at all
RmLines ==
    {TouchF, <<"rm", " ", "f">>, <<"rm", " ", "-", "r", " ", "f">>,
     <<"rm", " ", "g">>, <<"rm", " ", "-", "x", " ", "f">>, <<"rm">>}

RmRegistrations ==
    {<<<<"rm">>, "RmCommand">>, <<<<"touch">>, "TouchCommand">>}

NextRm ==
    \/ \E reg \in RmRegistrations : registerCommand(reg[1], reg[2])
    \/ PreHookRegister(<<"rm">>)
    \/ PostHookRegister(<<"rm">>)
    \/ \E command \in RmLines :
          ExecuteCommand(command, 0, 0, ThrownNull)

SpecRm == Init /\ [][NextRm]_vars

\* the current directory: a shell made with the defaults, under command
\* lines, direct changeDirectory calls and restores
CwdLines ==
    {TouchF, <<"mkdir", " ", "/", "tmp">>, <<"cd", " ", "/", "tmp">>}

CwdRegistrations ==
    {<<<<"cd">>, "CdCommand">>, <<<<"touch">>, "TouchCommand">>,
     <<<<"mkdir">>, "MkdirCommand">>}

CwdPaths == {<<"/", "tmp">>, <<".", ".">>, <<"f">>, <<"none">>}

NextCwd ==
    \/ \E reg \in CwdRegistrations : registerCommand(reg[1], reg[2])
    \/ \E command \in CwdLines :
          ExecuteCommand(command, 0, 0, ThrownNull)
    \/ \E newPath \in CwdPaths : ChangeDirectory(newPath)
    \/ SerializeVolume
    \/ snapshot.taken /\ DeserializeVolume(snapshot.text)
    \/ \E text \in ForeignTexts : DeserializeVolume(text)

SpecCwd == Init /\ [][NextCwd]_vars

\* the symbols of the lines given to extractRedirection: a blank, the
\* operator character and an ordinary character
LineSymbols == {" ", ">", "a"}

\* the lines of at most n symbols
RECURSIVE LinesUpTo(_)
LinesUpTo(n) ==
    IF n = 0 THEN {<<>>}
    ELSE LinesUpTo(n - 1)
             \cup {Append(l, c) : l \in {m \in LinesUpTo(n - 1) :
                                            Len(m) = n - 1},
                                  c \in LineSymbols}

\* a line is at hand and extractRedirection has not been applied to it
InitExtraction ==
    /\ volume = EmptyVolume
    /\ currentDirectory = <<>>
    /\ commands = <<>>
    /\ preHooks = <<>>
    /\ postHooks = <<>>
    /\ last = NoCall
    /\ fs = OnVolume
    /\ snapshot = NoSnapshot
    /\ construction = Constructed
    /\ sandbox = NoIsolates
    /\ extraction \in {[line |-> l, applied |-> FALSE, result |-> <<>>] :
                          l \in LinesUpTo(MaxLine)}

\* extractRedirection(command) applied to the line at hand
ExtractRedirection ==
    /\ ~extraction.applied
    /\ extraction' = [extraction EXCEPT
                         !.applied = TRUE,
                         !.result = extractRedirection(extraction.line)]
    /\ UNCHANGED <<volume, currentDirectory, commands, preHooks, postHooks,
                   last, fs, snapshot, construction, sandbox>>

NextExtraction == ExtractRedirection

SpecExtraction == InitExtraction /\ [][NextExtraction]_vars

(***************************************************************************)
(* Properties.                                                             *)
(***************************************************************************)
\* the step is a call of executeCommand
CallStep == last'.tick # last.tick

StderrOf(message) == <<[type |-> "stderr", message |-> Namespace \o message]>>

\* the line has a trailing redirection with a target
HasRedirection(command) == extractRedirection(command).targetFile # <<>>

\* C1: for every non-empty line without a trailing redirection the string
\* returned by executeCommand starts with the namespace prefix "bash: ".
C1_ReturnIsPrefixed ==
    (/\ last.called
     /\ last.settled = "resolved"
     /\ ~isInvalidCommand(last.line)
     /\ ~HasRedirection(last.line))
        => (last.ret # <<>> /\ <<Head(last.ret)>> = Namespace)

\* C2: every executeCommand call that returns publishes exactly one event,
\* stdout or stderr, whose payload is the string returned to the caller.
C2_OneEventPerCall ==
    (last.called /\ last.settled = "resolved")
        => /\ Len(last.events) = 1
           /\ last.events[1].type \in {"stdout", "stderr"}
           /\ last.events[1].message = last.ret

\* C3: executeCommand never throws: whatever a hook, the command body or
\* the redirection write throws, the returned promise resolves to a message
\* string and is never rejected.
C3_NeverRejects == last.called => last.settled = "resolved"

\* every symbol of the line is a blank
AllBlank(command) == \A i \in 1..Len(command) : IsWs(command[i])

\* the first blank-delimited chunk of the line starts with an operator or
\* starts with a word that has a glob character in it
FirstTokenNotWord(command) ==
    \E n \in 1..Len(TrimLeft(command)) :
        /\ n = WordLen(TrimLeft(command))
        /\ \/ TrimLeft(command)[1] = ">"
           \/ \E k \in 1..n :
                 /\ TrimLeft(command)[k] = "*"
                 /\ \A j \in 1..k : TrimLeft(command)[j] # ">"

\* C4: for every line that is empty or blank, and for every line whose
\* first token is not a plain word, executeCommand yields the NoCommand
\* message as a stderr outcome and runs no hook and no command body.
C4_NoCommand ==
    (last.called /\ (AllBlank(last.line) \/ FirstTokenNotWord(last.line)))
        => /\ last.settled = "resolved"
           /\ last.ret = Namespace \o NO_COMMAND(<<"bash">>)
           /\ last.events = StderrOf(NO_COMMAND(<<"bash">>))
           /\ last.trace = <<>>

\* a line whose first token is a glob was answered, with hooks registered
C4_Witness ==
    /\ last.called
    /\ last.line = <<"*">>
    /\ last.ret = <<"bash: ", "bash", ": command not provided">>
    /\ HooksRegistered > 0

\* C5: for every line whose command name was never registered,
\* executeCommand yields the CommandNotFound stderr message naming that
\* name and runs no pre-hook, no command body and no post-hook.
C5_CommandNotFound ==
    (/\ last.called
     /\ LineName(last.line) # <<>>
     /\ LineName(last.line) \notin DOMAIN commands)
        => /\ last.settled = "resolved"
           /\ last.ret = Namespace \o ERR_CMD_NOT_FOUND(LineName(last.line))
           /\ last.events = StderrOf(ERR_CMD_NOT_FOUND(LineName(last.line)))
           /\ last.trace = <<>>

\* the steps of a trace, without the data they were given
StepsOf(trace) == [i \in 1..Len(trace) |-> <<trace[i].step, trace[i].id>>]

\* the steps of a complete run of a line: the pre-hooks of its name in
\* registration order, the body, the post-hooks of its name in registration
\* order, and the redirection if the line has one
CompleteSteps(command) ==
    LET pre == HooksFor(preHooks, LineName(command))
        post == HooksFor(postHooks, LineName(command))
    IN  [i \in 1..Len(pre) |-> <<"pre", pre[i]>>]
            \o <<<<"body", 0>>>>
            \o [i \in 1..Len(post) |-> <<"post", post[i]>>]
            \o (IF HasRedirection(command) THEN <<<<"redirect", 0>>>>
                ELSE <<>>)

IsPrefix(s, t) == Len(s) <= Len(t) /\ s = SubSeq(t, 1, Len(s))

\* C6: within one invocation of a registered command the steps are totally
\* ordered: the pre-hooks of that name, each once, in registration order,
\* all before the body; the body before the post-hooks; the post-hooks of
\* that name, each once, in registration order and given the body's output,
\* all before the redirection; hooks of other names do not run.  The steps
\* that ran are always an initial part of this order, and they are the
\* whole of it whenever the invocation ends without a stderr outcome.
C6_PipelineOrder ==
    [][(CallStep /\ LineName(last'.line) \in DOMAIN commands)
          => LET trace == last'.trace
                 complete == CompleteSteps(last'.line)
             IN  /\ IsPrefix(StepsOf(trace), complete)
                 /\ (/\ last'.settled = "resolved"
                     /\ \A i \in 1..Len(last'.events) :
                           last'.events[i].type # "stderr")
                        => StepsOf(trace) = complete
                 /\ \A i, j \in 1..Len(trace) :
                       (trace[i].step = "body" /\ trace[j].step = "post")
                           => trace[j].output = trace[i].output]_vars

\* echo ran after its two pre-hooks, in the order of their registration
C6_Witness ==
    /\ last.called
    /\ last.line = EchoOne
    /\ StepsOf(last.trace) = <<<<"pre", 1>>, <<"pre", 2>>, <<"body", 0>>>>
    /\ last.ret = <<"one">>

\* the call ended in the empty-output success message of a redirection
RedirectionSucceeded(call) ==
    /\ call.called
    /\ call.settled = "resolved"
    /\ call.trace # <<>>
    /\ call.trace[Len(call.trace)].step = "redirect"
    /\ Len(call.events) = 1
    /\ call.events[1].type = "stdout"

\* the output of the body of a call that ran its body
BodyOutput(call) ==
    LET i == CHOOSE i \in 1..Len(call.trace) : call.trace[i].step = "body"
    IN  call.trace[i].output

\* the file a line redirects to, resolved in the directory the body left
TargetOf(command, cwd) ==
    pathResolve(cwd, extractRedirection(command).targetFile)

\* C7: when a line ends in `> file` and the redirection succeeds, the file
\* then holds exactly the command's output and one newline; when it ends in
\* `>> file`, the previous content followed by the output and one newline;
\* in both cases the call returns the empty-output success message.  Hence
\* `echo one > f`, `echo two >> f`, `cat f` returns "one\ntwo\n": after the
\* first two succeed in a row f holds "one\ntwo\n", and cat of a file
\* returns what the file holds.
C7_RedirectionContent ==
    [][CallStep =>
          LET call == last'
              target == TargetOf(call.line, currentDirectory')
              operator == extractRedirection(call.line).redirectionOperator
          IN  /\ RedirectionSucceeded(call) =>
                    /\ call.ret = Namespace
                    /\ target \in DOMAIN volume'
                    /\ ~volume'[target].dir
                    /\ operator = <<">">> =>
                          volume'[target].data
                              = BodyOutput(call) \o <<"\n">>
                    /\ operator = <<">", ">">> =>
                          /\ target \in DOMAIN volume
                          /\ volume'[target].data
                                 = volume[target].data
                                       \o BodyOutput(call) \o <<"\n">>
              /\ (/\ RedirectionSucceeded(last)
                  /\ last.line = EchoOneToF
                  /\ RedirectionSucceeded(call)
                  /\ call.line = EchoTwoAppendF) =>
                    volume'[target].data = <<"one", "\n", "two", "\n">>
              /\ (/\ call.line = CatF
                  /\ <<"cat">> \in DOMAIN commands
                  /\ pathResolve(currentDirectory, <<"f">>) \in DOMAIN volume
                  /\ ~volume[pathResolve(currentDirectory, <<"f">>)].dir) =>
                    call.ret
                        = volume[pathResolve(currentDirectory, <<"f">>)].data
      ]_vars

\* cat f returned "one\ntwo\n"
C7_Witness ==
    /\ last.called
    /\ last.line = CatF
    /\ last.ret = <<"one", "\n", "two", "\n">>

\* the call ran the body of its command
RanBody(call) ==
    call.called /\ \E i \in 1..Len(call.trace) : call.trace[i].step = "body"

\* C8 as stated: from any shell state, `echo w > f` followed by `cat f`
\* makes the second call return w followed by a newline.
C8_EchoThenCat ==
    [][(/\ CallStep
        /\ RanBody(last)
        /\ last.line = EchoOneToF
        /\ last'.line = CatF
        /\ <<"cat">> \in DOMAIN commands)
          => last'.ret = <<"one", "\n">>]_vars

\* C8 as amended: if the redirection of `echo w > f` succeeds (f resolves
\* to an existing regular file when it is applied), then `cat f` right
\* after it returns w followed by a newline.
C8_EchoThenCatWritable ==
    [][(/\ CallStep
        /\ RedirectionSucceeded(last)
        /\ last.line = EchoOneToF
        /\ last'.line = CatF
        /\ <<"cat">> \in DOMAIN commands)
          => last'.ret = <<"one", "\n">>]_vars

\* cat f returned "one\n" from a file that holds it
C8_Witness ==
    /\ last.called
    /\ last.line = CatF
    /\ last.ret = <<"one", "\n">>
    /\ volume[pathResolve(currentDirectory, <<"f">>)].data = <<"one", "\n">>

\* what the body of a line leaves behind when run in the current state
BodyOf(command) ==
    LET args == shellQuoteParse(extractRedirection(command).commandInput)
    IN  Execute(CommandClass(commands, commandNameOf(args)),
                commandArgsOf(args), volume, currentDirectory)

\* the last step of the call was the redirection
RedirectionApplied(call) ==
    /\ call.called
    /\ call.trace # <<>>
    /\ call.trace[Len(call.trace)].step = "redirect"

\* C9: for both `>` and `>>`, if the resolved target does not pass the
\* writability check when the redirection is applied (a target that does
\* not exist included), the call returns the PermissionDenied stderr
\* message naming the resolved path and the redirection writes nothing.
C9_PermissionDenied ==
    [][(/\ CallStep
        /\ RedirectionApplied(last')
        /\ TargetOf(last'.line, BodyOf(last'.line).cwd)
               \notin DOMAIN BodyOf(last'.line).vol)
          => LET target == TargetOf(last'.line, BodyOf(last'.line).cwd)
             IN  /\ last'.settled = "resolved"
                 /\ last'.ret = Namespace
                        \o ERR_PERMISSION_DENIED(PathString(target))
                 /\ last'.events
                        = StderrOf(ERR_PERMISSION_DENIED(PathString(target)))
                 /\ volume' = BodyOf(last'.line).vol]_vars

\* `echo two >> f` was denied in /tmp, where no f exists
C9_Witness ==
    /\ last.called
    /\ last.line = EchoTwoAppendF
    /\ last.ret = <<"bash: ", "/", "tmp", "/", "f", ": permission denied">>
    /\ <<"tmp", "f">> \notin DOMAIN volume

\* C10: `cd <path>` with a path that resolves to nothing in the volume
\* leaves currentDirectory unchanged and returns the NoSuchDirectory error
\* as a stderr outcome; with a path that resolves to an existing
\* non-directory it leaves currentDirectory unchanged and returns the
\* NotADirectory error.
C10_CdFailure ==
    [][(/\ CallStep
        /\ Len(last'.line) > 2
        /\ SubSeq(last'.line, 1, 2) = <<"cd", " ">>
        /\ ~HasRedirection(last'.line)
        /\ <<"cd">> \in DOMAIN commands)
          => LET path == SubSeq(last'.line, 3, Len(last'.line))
                 target == pathResolve(currentDirectory, path)
             IN  /\ target \notin DOMAIN volume =>
                       /\ currentDirectory' = currentDirectory
                       /\ last'.ret = Namespace \o ERR_NO_SUCH_DIRECTORY(path)
                       /\ last'.events
                              = StderrOf(ERR_NO_SUCH_DIRECTORY(path))
                 /\ (target \in DOMAIN volume /\ ~volume[target].dir) =>
                       /\ currentDirectory' = currentDirectory
                       /\ last'.ret = Namespace \o ERR_NOT_A_DIRECTORY(path)
                       /\ last'.events
                              = StderrOf(ERR_NOT_A_DIRECTORY(path))]_vars

\* the step is a call of deserializeVolume
RestoreStep == snapshot'.tick # snapshot.tick

\* C11: whatever commands changed the volume since the shell was made,
\* restoring the string serializeVolume gave yields a volume with the same
\* paths, each the same kind of node with the same content, as the volume
\* had when it was serialized; after the restore the filesystem handle is
\* on the restored volume.
C11_SnapshotRoundTrip ==
    [][(RestoreStep /\ snapshot.taken /\ snapshot'.given = snapshot.text)
          => /\ snapshot'.ok
             /\ DOMAIN volume' = DOMAIN snapshot.of
             /\ \A p \in DOMAIN volume' : volume'[p] = snapshot.of[p]
             /\ fs'.onVolume
             /\ FsView' = volume']_vars

\* a volume with a file that holds text, an empty file and an empty
\* directory inside a directory was restored from its string
C11_Witness ==
    /\ snapshot.taken
    /\ snapshot.tick
    /\ snapshot.given = snapshot.text
    /\ snapshot.ok
    /\ volume = snapshot.of
    /\ <<"tmp", "sub">> \in DOMAIN volume
    /\ <<"f">> \in DOMAIN volume
    /\ volume[<<"f">>].data = <<"one", "\n">>
    /\ <<"g">> \in DOMAIN volume
    /\ volume[<<"g">>].data = <<>>

\* the step is a call of the constructor
ConstructStep == construction'.tick # construction.tick

\* C12: constructing a shell succeeds whatever options are given; with no
\* options the shell has an empty volume, currentDirectory "/" and user
\* "guest"; with a serializedVolume that serializeVolume gave, the new
\* shell's volume has the paths, kinds and contents of the volume that was
\* serialized.
C12_ConstructionSucceeds ==
    [][ConstructStep
          => /\ construction'.phase = "constructed"
             /\ construction'.options = NoOptions
                   => /\ volume' = EmptyVolume
                      /\ currentDirectory' = <<>>
                      /\ construction'.user = <<"guest">>
             /\ (/\ snapshot.taken
                 /\ construction'.options.serializedVolume = snapshot.text)
                   => volume' = snapshot.of]_vars

\* the import stopped on a module without a valid command class
RejectedAsInvalid ==
    /\ construction.rejected.kind = "Error"
    /\ construction.rejected.message # <<>>
    /\ construction.rejected.message[Len(construction.rejected.message)]
           = ": invalid command class"

\* C15: when a module of the commands directory does not provide a valid
\* command class, the constructor does not complete: InvalidCommandClass
\* is never raised on a shell that was handed to its caller.
C15_InvalidModuleAborts ==
    RejectedAsInvalid => construction.phase # "constructed"

\* C19: once the constructor has returned, the registered names and the
\* class bound to each never change.
C19_RegistryImmutable ==
    [][(construction.phase = "constructed" /\ ~ConstructStep)
          => commands' = commands]_vars

\* C13: every isolate an executeFunction call allocated is disposed when
\* the call settles, whichever way the call ends after the allocation; no
\* isolate is ever left live.
C13_IsolatesDisposed == sandbox.live = {}

\* C14: when the script times out or throws, the promise of
\* executeFunction resolves, to a pair whose stderr is the failure text,
\* which is not empty.
C14_FailureIsStderr ==
    (/\ sandbox.called
     /\ sandbox.fault = NoFault
     /\ sandbox.script.end \in {"throws", "timeout"})
        => /\ sandbox.settled = "resolved"
           /\ sandbox.stderr # <<>>

\* the call ended in a stderr outcome
EndedInStderr(call) ==
    /\ call.called
    /\ call.settled = "resolved"
    /\ Len(call.events) = 1
    /\ call.events[1].type = "stderr"
    /\ call.ret = call.events[1].message

\* the last step the call ran
LastStep(call) == call.trace[Len(call.trace)].step

\* the call did not end as a complete run ends: with the body's output
\* and no event, or in the redirection
CutShort(call) ==
    /\ call.called
    /\ call.trace # <<>>
    /\ call.settled = "rejected" \/ call.events # <<>>

\* a hook of the call threw: the steps end with a hook and the run was
\* cut short there
HookThrew(call) == CutShort(call) /\ LastStep(call) \in {"pre", "post"}

\* the body of the call threw
BodyThrew(call) == CutShort(call) /\ LastStep(call) = "body"

\* C16: a call that ends in a stderr outcome leaves the registry and both
\* hook pipelines as they were, and the call that follows it, whatever its
\* line, goes through the same pipeline (its steps are an initial part of
\* the order of a complete run) and ends in an outcome returned to the
\* caller.
C16_ErrorsNonFatal ==
    [][CallStep
          => /\ EndedInStderr(last')
                   => /\ commands' = commands
                      /\ preHooks' = preHooks
                      /\ postHooks' = postHooks
             /\ EndedInStderr(last)
                   => /\ last'.settled = "resolved"
                      /\ LineName(last'.line) \in DOMAIN commands
                            => IsPrefix(StepsOf(last'.trace),
                                        CompleteSteps(last'.line))]_vars

\* the messages a failing hook of the model may carry, as stderr events
HookFailureEvents ==
    {StderrOf(thrown.message) :
        thrown \in {t \in HookThrows : t.message # <<>>}}
        \cup {StderrOf(ERR_UNKNOWN)}

\* C17: when a pre-hook throws, neither the body nor the redirection has
\* acted on the shell; when the body throws, no post-hook runs and the
\* redirection is not applied; when a post-hook throws, the redirection is
\* not applied.  In each case the call ends in a stderr outcome that
\* carries the message of what was thrown.
C17_FailureShortCircuits ==
    [][CallStep
          => /\ (HookThrew(last') /\ LastStep(last') = "pre")
                   => /\ volume' = volume
                      /\ currentDirectory' = currentDirectory
                      /\ EndedInStderr(last')
                      /\ last'.events \in HookFailureEvents
             /\ BodyThrew(last')
                   => /\ volume' = BodyOf(last'.line).vol
                      /\ EndedInStderr(last')
                      /\ last'.events
                            = StderrOf(OrElse(
                                  BodyOf(last'.line).thrown.message,
                                  ERR_UNKNOWN))
             /\ (HookThrew(last') /\ LastStep(last') = "post")
                   => /\ volume' = BodyOf(last'.line).vol
                      /\ EndedInStderr(last')
                      /\ last'.events \in HookFailureEvents]_vars

\* the executions of the body and the writes of the redirection among the
\* steps of a run, with what they were given
Effects(trace) ==
    SelectSeq(trace, LAMBDA e : e.step \in {"body", "redirect"})

\* the same line on the same shell without any hook
WithoutHooks(command) ==
    executeCommand(command, 0, 0, ThrownNull, commands, <<>>, <<>>,
                   volume, currentDirectory)

\* the call did what the same call does on a shell without hooks
SameAsWithoutHooks(call, bare) ==
    /\ Effects(call.trace) = Effects(bare.trace)
    /\ call.settled = bare.settled
    /\ call.ret = bare.ret

RECURSIVE WordAtEnd(_)
WordAtEnd(line) ==
    IF line = <<>> \/ line[Len(line)] \in {" ", ">"} THEN 0
    ELSE 1 + WordAtEnd(SubSeq(line, 1, Len(line) - 1))

\* the number of blanks at the end of the line
RECURSIVE BlanksAtEnd(_)
BlanksAtEnd(line) ==
    IF line = <<>> \/ line[Len(line)] # " " THEN 0
    ELSE 1 + BlanksAtEnd(SubSeq(line, 1, Len(line) - 1))

\* the line read as rest, operator, blanks, target: the target is the
\* word at its end, the operator the one or two ">" before the blanks
\* that precede the target
ReadAs(line) ==
    LET target == SubSeq(line, Len(line) - WordAtEnd(line) + 1, Len(line))
        front == SubSeq(line, 1, Len(line) - WordAtEnd(line))
        upToOperator == SubSeq(front, 1, Len(front) - BlanksAtEnd(front))
        n == Len(upToOperator)
        double == n >= 2 /\ upToOperator[n - 1] = ">"
    IN  [hasForm |-> /\ target # <<>>
                     /\ n >= 1
                     /\ upToOperator[n] = ">",
         rest |-> SubSeq(upToOperator, 1, IF double THEN n - 2 ELSE n - 1),
         operator |-> IF double THEN <<">", ">">> ELSE <<">">>,
         target |-> target]

\* no ">" of the line is followed, after optional blanks, by a run of
\* symbols other than blanks that ends the line
NoRedirectionSuffix(line) ==
    ~\E i \in 1..Len(line) :
        /\ line[i] = ">"
        /\ \E j \in (i + 1)..Len(line) :
              /\ \A k \in (i + 1)..(j - 1) : line[k] = " "
              /\ \A k \in j..Len(line) : line[k] # " "

\* C20: for a line made of rest, `>` or `>>`, optional blanks and a target
\* at its end, extractRedirection gives rest trimmed as commandInput, that
\* operator as redirectionOperator and the target as targetFile; for a
\* line without such a suffix (a dangling `>` or `>>` included) it gives
\* the whole line as commandInput and null for both other fields.
C20_ExtractRedirection ==
    extraction.applied
        => /\ ReadAs(extraction.line).hasForm
                 => extraction.result
                        = [commandInput |->
                               Trim(ReadAs(extraction.line).rest),
                           redirectionOperator |->
                               ReadAs(extraction.line).operator,
                           targetFile |-> ReadAs(extraction.line).target]
           /\ NoRedirectionSuffix(extraction.line)
                 => extraction.result
                        = [commandInput |-> extraction.line,
                           redirectionOperator |-> <<>>,
                           targetFile |-> <<>>]

\* the text with the newlines at its end removed
RECURSIVE WithoutFinalNewlines(_)
WithoutFinalNewlines(text) ==
    IF text # <<>> /\ text[Len(text)] = "\n"
    THEN WithoutFinalNewlines(SubSeq(text, 1, Len(text) - 1))
    ELSE text

\* C21: the stdout of a sandbox result is what the script passed to
\* console.log until it finished, threw or timed out, and when the script
\* finished stderr is what it passed to console.error (a newline at the end
\* of either not counted).
C21_OutputIsReturned ==
    (/\ sandbox.called
     /\ sandbox.fault = NoFault
     /\ sandbox.script.end \in {"returns", "throws", "timeout"})
        => /\ sandbox.settled = "resolved"
           /\ sandbox.stdout
                  = WithoutFinalNewlines(consoleRef(sandbox.script.logs))
           /\ sandbox.script.end = "returns"
                 => sandbox.stderr
                        = WithoutFinalNewlines(
                              consoleRef(sandbox.script.errors))

\* what the line of a call was tokenized into
TokenizedArgs(call) ==
    commandArgsOf(shellQuoteParse(extractRedirection(call.line).commandInput))

\* C22: within one invocation every pre-hook, the command body and every
\* post-hook observe the argument sequence that was tokenized from the
\* line, whatever a hook or the body does to the array it was handed.
C22_ArgumentIntegrity ==
    [][CallStep =>
          \A i \in DOMAIN last'.trace :
              last'.trace[i].step \in {"pre", "body", "post"}
                  => last'.trace[i].args = TokenizedArgs(last')]_vars

\* the call ran the rm of part_002
IsRm(call) ==
    /\ call.called
    /\ LineName(call.line) = <<"rm">>
    /\ <<"rm">> \in DOMAIN commands
    /\ commands[<<"rm">>] = "RmCommand"

\* the operands of an rm line, resolved against the directory of the call
RmTargets(call, cwd) ==
    LET args == RmOptions(TokenizedArgs(call), FALSE).args
    IN  {pathResolve(cwd, args[i]) : i \in DOMAIN args}

\* the call returned the success output of rm
RmSucceeded(call) ==
    /\ call.settled = "resolved"
    /\ call.events = <<>>
    /\ call.ret = <<>>

\* C25: after rm of an existing file (or rm -r of an existing directory)
\* returned its success output, the target no longer exists in the volume;
\* rm of a target that does not exist ends in a stderr outcome.
C25_RmRemoves ==
    [][(CallStep /\ IsRm(last')) =>
          \A target \in RmTargets(last', currentDirectory) :
              /\ (/\ RmSucceeded(last')
                  /\ target \in DOMAIN volume
                  /\ (volume[target].dir
                         => RmOptions(TokenizedArgs(last'), FALSE).recursive))
                     => target \notin DOMAIN volume'
              /\ target \notin DOMAIN volume => EndedInStderr(last')]_vars

\* the text handed to deserializeVolume is not the JSON of a volume
Unparsable(serializedVolume) ==
    \/ ~JSONparse(serializedVolume).ok
    \/ ~fromJSON(JSONparse(serializedVolume).json).ok

\* C24: a deserializeVolume call with a string that cannot be parsed into a
\* volume fails and leaves the volume contents and the filesystem handle of
\* the shell exactly as they were.
C24_FailedRestoreChangesNothing ==
    [][(RestoreStep /\ Unparsable(snapshot'.given)) =>
          /\ ~snapshot'.ok
          /\ volume' = volume
          /\ fs' = fs]_vars

\* C23: whenever executeCommand returns a stderr outcome, the volume contents
\* and currentDirectory are the same as before that invocation.
C23_ErrorsAreAtomic ==
    [][(CallStep /\ EndedInStderr(last')) =>
          /\ volume' = volume
          /\ currentDirectory' = currentDirectory]_vars

\* C26: in every reachable state of a shell constructed with defaults, after
\* any sequence of executeCommand, changeDirectory and deserializeVolume
\* calls, currentDirectory is an absolute path that names an existing
\* directory of the current volume.
C26_CurrentDirectoryExists ==
    /\ currentDirectory \in DOMAIN volume
    /\ volume[currentDirectory].dir

====
